---- MODULE Spec2Model ----
(***************************************************************************)
(* Win-probability model (match_analyzer.py) and Monte Carlo tournament    *)
(* simulation engine (tournament_simulator.py) of the cricket analytics    *)
(* system.                                                                 *)
(*                                                                         *)
(* Numbers.  Ratings and probabilities carry one decimal in the program    *)
(* (team_strength_calculator rounds ratings with round(x, 1); the result   *)
(* of calculate_win_probability is round(p, 1)), so both are held in       *)
(* TENTHS: 503 is 50.3.  Intermediate values are exact rationals held as   *)
(* <<numerator, denominator>> with a positive denominator; round(x, 1) is  *)
(* round-half-to-even on the exact value.  Venue win percentages are whole *)
(* percents, run rates are in tenths.                                      *)
(***************************************************************************)
EXTENDS Integers, Sequences, FiniteSets, TLC

VARIABLES
    \* ---- reference data, built once by the constructors ----
    schedule_df,        \* sequence of fixtures [Match_ID, Team1, Team2, Venue]
    teams,              \* TournamentSimulator.teams: team names in ratings order
    team_ratings,       \* MatchAnalyzer.team_ratings: team -> [batting, bowling, overall]
    venue_stats,        \* MatchAnalyzer.venue_stats: venue -> profile
    num_simulations,    \* TournamentSimulator.num_simulations
    \* ---- run_multiple_simulations ----
    pc,                 \* position of the driver
    error,              \* exception that ended the call, "none" while there is none
    i,                  \* loop index of run_multiple_simulations (runs completed)
    team_stats,         \* simulate_group_stage: team -> [wins, losses, points]
    match_results,      \* simulate_group_stage: results of the fixtures played so far
    sim_result,         \* run_simulation: result of the last completed run
    final_results,      \* results of the simulate_single_match calls simulate_playoffs made in this run
    winners,            \* accumulated champions
    playoff_appearances,\* accumulated appearance counters (defaultdict(int))
    final_standings,    \* accumulated points lists (defaultdict(list))
    all_match_results,  \* match results of the first run
    analysis,           \* rows returned by analyze_results
    crucial_matches,    \* list returned by find_crucial_matches
    \* ---- a single calculate_win_probability query ----
    query,              \* [match_id, toss_winner, toss_decision, total_matches]
    prediction          \* [status, error, result]

vars == <<schedule_df, teams, team_ratings, venue_stats, num_simulations,
          pc, error, i, team_stats, match_results, sim_result, final_results,
          winners, playoff_appearances, final_standings, all_match_results,
          analysis, crucial_matches, query, prediction>>

refdata == <<schedule_df, teams, team_ratings, venue_stats, num_simulations>>

simvars == <<pc, error, i, team_stats, match_results, sim_result, final_results,
             winners, playoff_appearances, final_standings, all_match_results,
             analysis, crucial_matches>>

queryvars == <<query, prediction>>

(***************************************************************************)
(* Bounds of the model                                                     *)
(***************************************************************************)
MaxSims == 2

(***************************************************************************)
(* Program constants                                                       *)
(***************************************************************************)
H2HMinMatches == 8
H2HMaxMatches == 15
ClampLow == 15
ClampHigh == 85
FinalMatchId == 999
DefaultRating == 500
DefaultVenuePct == 50
DefaultAvgScore == 150
DefaultRunRate == 85
PointsPerWin == 2
TopTeamCount == 4
CrucialLimit == 5

\* toss_advantage = 15.0, and its half, in tenths
TossAdvantage == 150
HalfTossAdvantage == 75

NoTeam == "-"

(***************************************************************************)
(* Arithmetic helpers                                                      *)
(***************************************************************************)
Max(a, b) == IF a >= b THEN a ELSE b
Min(a, b) == IF a <= b THEN a ELSE b
Abs(a) == IF a >= 0 THEN a ELSE -a

\* Python int(n/d): truncation toward zero, d > 0
Trunc(n, d) == IF n >= 0 THEN n \div d ELSE -((-n) \div d)

\* round-half-to-even of n/d to an integer, d > 0 (\div and % are floor-based)
RoundHalfEven(n, d) ==
    LET q == n \div d
        r == n % d
    IN  IF 2 * r > d THEN q + 1
        ELSE IF 2 * r < d THEN q
        ELSE IF q % 2 = 0 THEN q ELSE q + 1

RECURSIVE SumSeq(_)
SumSeq(s) == IF s = <<>> THEN 0 ELSE Head(s) + SumSeq(Tail(s))

Range(s) == {s[j] : j \in 1..Len(s)}

(***************************************************************************)
(* MatchAnalyzer lookups                                                   *)
(***************************************************************************)
\* index of the first schedule row with this id, 0 when there is none
MatchRow(match_id) ==
    IF \E j \in 1..Len(schedule_df) : schedule_df[j].Match_ID = match_id
    THEN CHOOSE j \in 1..Len(schedule_df) :
            /\ schedule_df[j].Match_ID = match_id
            /\ \A l \in 1..(j - 1) : schedule_df[l].Match_ID # match_id
    ELSE 0

\* get_match_details that falls back to the first fixture instead of raising
get_match_details_FirstRow(match_id) ==
    LET row == IF MatchRow(match_id) = 0 THEN 1 ELSE MatchRow(match_id)
    IN  [found |-> TRUE,
         match_id |-> match_id,
         team1 |-> schedule_df[row].Team1,
         team2 |-> schedule_df[row].Team2,
         venue |-> schedule_df[row].Venue]

\* get_match_details: [found |-> FALSE] stands for raise ValueError
get_match_details(match_id) ==
    IF MatchRow(match_id) = 0
    THEN [found |-> FALSE]
    ELSE [found |-> TRUE,
          match_id |-> match_id,
          team1 |-> schedule_df[MatchRow(match_id)].Team1,
          team2 |-> schedule_df[MatchRow(match_id)].Team2,
          venue |-> schedule_df[MatchRow(match_id)].Venue]

\* get_team_rating with a zero default instead of 50.0
get_team_rating_ZeroDefault(team_name) ==
    IF team_name \in DOMAIN team_ratings
    THEN team_ratings[team_name]
    ELSE [batting |-> 0, bowling |-> 0, overall |-> 0]

get_team_rating(team_name) ==
    IF team_name \in DOMAIN team_ratings
    THEN team_ratings[team_name]
    ELSE [batting |-> DefaultRating, bowling |-> DefaultRating, overall |-> DefaultRating]

get_venue_impact(venue) ==
    IF venue \in DOMAIN venue_stats
    THEN venue_stats[venue]
    ELSE [bat_first_win_pct |-> DefaultVenuePct, bowl_first_win_pct |-> DefaultVenuePct,
          avg_score |-> DefaultAvgScore, run_rate |-> DefaultRunRate]

\* Lines 86-89.  team1_wins from the two overall ratings (tenths, so the
\* (r1 - r2) / 100 of the code is (r1 - r2) / 1000 here); int() truncates toward
\* zero and is applied to the exact product.
H2HWins(team1_rating, team2_rating, total_matches) ==
    IF team1_rating > team2_rating
    THEN Trunc(total_matches * (500 + (team1_rating - team2_rating)), 1000)
    ELSE Trunc(total_matches * (500 - (team2_rating - team1_rating)), 1000)

\* get_head_to_head_record with random.randint(8, 15) drawn as total_matches.
\* team1_win_pct = team1_wins / total_matches * 100 is kept as a rational.
get_head_to_head_record(team1, team2, total_matches) ==
    LET team1_rating == get_team_rating(team1).overall
        team2_rating == get_team_rating(team2).overall
        team1_wins == H2HWins(team1_rating, team2_rating, total_matches)
        team2_wins == total_matches - team1_wins
    IN  [total_matches |-> total_matches,
         team1_wins |-> team1_wins,
         team2_wins |-> team2_wins,
         team1_win_pct |-> <<team1_wins * 100, total_matches>>,
         team2_win_pct |-> <<team2_wins * 100, total_matches>>]

(***************************************************************************)
(* calculate_win_probability                                               *)
(***************************************************************************)
\* Lines 171-178.  base_prob_team1 after the head-to-head blend, as the
\* numerator over BaseDen(h2h):
\*   50 + gap * 1.5            = (1000 + 3 * gap) / 20       (gap in tenths)
\*   base * 0.9 + pct * 0.1    = (9 * (1000 + 3 * gap) * T + 2000 * wins) / (200 * T)
BaseDen(h2h) == 200 * h2h.total_matches

\* the blend computed from the gap of the batting sub-scores
BlendedBase1_BattingGap(team1_ratings, team2_ratings, h2h) ==
    9 * (1000 + 3 * (team1_ratings.batting - team2_ratings.batting)) * h2h.total_matches
        + 20 * h2h.team1_win_pct[1]

\* the blend with the rating gap taken from team2's side
BlendedBase1_ReversedGap(team1_ratings, team2_ratings, h2h) ==
    9 * (1000 + 3 * (team2_ratings.overall - team1_ratings.overall)) * h2h.total_matches
        + 20 * h2h.team1_win_pct[1]

BlendedBase1(team1_ratings, team2_ratings, h2h) ==
    9 * (1000 + 3 * (team1_ratings.overall - team2_ratings.overall)) * h2h.total_matches
        + 20 * h2h.team1_win_pct[1]

\* TossBonus that gives the full bonus whatever the venue
TossBonus_AlwaysFull(venue_impact, toss_decision) == TossAdvantage

\* Lines 180-205.  The bonus, in tenths, that the toss winner's slot receives.
TossBonus(venue_impact, toss_decision) ==
    IF toss_decision = "Bat"
    THEN IF venue_impact.bat_first_win_pct > 50 THEN TossAdvantage ELSE HalfTossAdvantage
    ELSE IF venue_impact.bowl_first_win_pct > 50 THEN TossAdvantage ELSE HalfTossAdvantage

\* Lines 172-205.  <<base_prob_team1, base_prob_team2>> before normalisation,
\* both as numerators over BaseDen(h2h).
PreNormal(team1_ratings, team2_ratings, venue_impact, h2h, toss_winner, toss_decision) ==
    LET den   == BaseDen(h2h)
        base1 == BlendedBase1(team1_ratings, team2_ratings, h2h)
        base2 == 100 * den - base1
        bonus == (TossBonus(venue_impact, toss_decision) * den) \div 10
    IN  IF toss_winner = "Team A"
        THEN <<base1 + bonus, base2>>
        ELSE <<base1, base2 + bonus>>

\* Lines 207-211.  base_prob_team1 after normalisation, as <<numerator, denominator>>.
\* total_prob is 115 or 107.5, never 100, and positive.
Normalize(pre, den) ==
    LET total_prob == pre[1] + pre[2]
    IN  IF total_prob # 100 * den
        THEN <<pre[1] * 100, total_prob>>
        ELSE <<pre[1], den>>

\* the clamped value stored in the other slot
Clamp_Complement(p) ==
    <<100 * p[2] - Max(ClampLow * p[2], Min(ClampHigh * p[2], p[1])), p[2]>>

\* Clamp with the upper bound forgotten
Clamp_NoCeiling(p) ==
    <<Max(ClampLow * p[2], p[1]), p[2]>>

\* Line 214.  max(15, min(85, p)) on a rational p = <<n, d>>, d > 0
Clamp(p) ==
    <<Max(ClampLow * p[2], Min(ClampHigh * p[2], p[1])), p[2]>>

\* Line 241.  round(x, 1) of the rational p, in tenths
Round1(p) == RoundHalfEven(10 * p[1], p[2])

\* Lines 207-215 and 241: the reported pair [round(p1, 1), round(100 - p1, 1)]
WinProb(pre, den) ==
    LET base_prob_team1 == Clamp(Normalize(pre, den))
        base_prob_team2 == <<100 * base_prob_team1[2] - base_prob_team1[1], base_prob_team1[2]>>
    IN  <<Round1(base_prob_team1), Round1(base_prob_team2)>>

\* Lines 217-231.  The key factors, each a tuple of its words.
KeyFactors(team1, team2, team1_ratings, team2_ratings, venue_impact) ==
    LET venue_part ==
            IF venue_impact.bat_first_win_pct > 55
            THEN << <<"Venue favors batting first teams">> >>
            ELSE IF venue_impact.bowl_first_win_pct > 55
            THEN << <<"Venue favors chasing teams">> >>
            ELSE <<>>
        rating_part ==
            IF Abs(team1_ratings.overall - team2_ratings.overall) > 30
            THEN << <<IF team1_ratings.overall > team2_ratings.overall THEN team1 ELSE team2,
                      "has higher overall rating">> >>
            ELSE <<>>
        key_factors == venue_part \o rating_part
    IN  IF key_factors = <<>> THEN << <<"Evenly matched teams">> >> ELSE key_factors

\* The whole function.  total_matches is the random.randint(8, 15) draw made by
\* get_head_to_head_record.  The venue-scaled batting-vs-bowling edges of lines
\* 155-169 are computed by the code and never read; they are not part of the result.
\* [status |-> "raised"] stands for the ValueError of get_match_details.
calculate_win_probability(match_id, toss_winner, toss_decision, total_matches) ==
    LET match_details == get_match_details(match_id)
    IN  IF ~match_details.found
        THEN [status |-> "raised", error |-> "ValueError", result |-> <<>>]
        ELSE
        LET team1 == match_details.team1
            team2 == match_details.team2
            venue == match_details.venue
            team1_ratings == get_team_rating(team1)
            team2_ratings == get_team_rating(team2)
            venue_impact == get_venue_impact(venue)
            h2h == get_head_to_head_record(team1, team2, total_matches)
            pre == PreNormal(team1_ratings, team2_ratings, venue_impact, h2h,
                             toss_winner, toss_decision)
        IN  [status |-> "ok", error |-> "none",
             result |-> << [team1 |-> team1,
                            team2 |-> team2,
                            venue |-> venue,
                            win_prob |-> WinProb(pre, BaseDen(h2h)),
                            key_factor |-> KeyFactors(team1, team2, team1_ratings,
                                                      team2_ratings, venue_impact),
                            venue_impact |-> <<venue_impact.bat_first_win_pct,
                                               venue_impact.bowl_first_win_pct>>,
                            head_to_head |-> <<h2h.team1_wins, h2h.team2_wins>>,
                            toss_impact |-> <<toss_winner, toss_decision>>] >>]

(***************************************************************************)
(* Inputs of the win-probability queries                                   *)
(***************************************************************************)
TossWinners == {"Team A", "Team B"}
TossDecisions == {"Bat", "Bowl"}
TotalMatchesDraws == H2HMinMatches..H2HMaxMatches

\* rows of team_ratings.csv a team can have (tenths)
RatingRows ==
    { [batting |-> 100, bowling |-> 100, overall |-> 0],
      [batting |-> 300, bowling |-> 300, overall |-> 300],
      [batting |-> 520, bowling |-> 400, overall |-> 466],
      [batting |-> 500, bowling |-> 500, overall |-> 500],
      [batting |-> 700, bowling |-> 255, overall |-> 500],
      [batting |-> 530, bowling |-> 470, overall |-> 503],
      [batting |-> 600, bowling |-> 500, overall |-> 555],
      [batting |-> 900, bowling |-> 600, overall |-> 765],
      [batting |-> 1000, bowling |-> 1000, overall |-> 1000] }

\* rows of venue_stats.csv a venue can have
VenueRows ==
    { [bat_first_win_pct |-> 60, bowl_first_win_pct |-> 40, avg_score |-> 165, run_rate |-> 92],
      [bat_first_win_pct |-> 45, bowl_first_win_pct |-> 55, avg_score |-> 148, run_rate |-> 82],
      [bat_first_win_pct |-> 50, bowl_first_win_pct |-> 50, avg_score |-> 150, run_rate |-> 85],
      [bat_first_win_pct |-> 50, bowl_first_win_pct |-> 50, avg_score |-> 171, run_rate |-> 97],
      [bat_first_win_pct |-> 53, bowl_first_win_pct |-> 58, avg_score |-> 155, run_rate |-> 88],
      [bat_first_win_pct |-> 45, bowl_first_win_pct |-> 48, avg_score |-> 140, run_rate |-> 80] }

\* functions from a subset of keys to rows: a lookup table with some keys missing
Tables(keys, rows) == UNION { [ks -> rows] : ks \in SUBSET keys }

QuerySchedule ==
    << [Match_ID |-> 1, Team1 |-> "London Spirit", Team2 |-> "Oval Invincibles",
        Venue |-> "Lord's, London"] >>

QueryMatchIds == {1, 5}

NoPrediction == [status |-> "none", error |-> "none", result |-> <<>>]
NoQuery == [match_id |-> 0, toss_winner |-> "Team A", toss_decision |-> "Bat",
            total_matches |-> H2HMinMatches]

(***************************************************************************)
(* Specification of single queries: the reference data and the query are   *)
(* drawn at the start, Predict applies calculate_win_probability.          *)
(***************************************************************************)
SimIdle ==
    /\ pc = "idle"
    /\ error = "none"
    /\ i = 0
    /\ team_stats = <<>>
    /\ match_results = <<>>
    /\ sim_result = <<>>
    /\ final_results = <<>>
    /\ winners = <<>>
    /\ playoff_appearances = <<>>
    /\ final_standings = <<>>
    /\ all_match_results = <<>>
    /\ analysis = <<>>
    /\ crucial_matches = <<>>

InitPredict ==
    /\ schedule_df = QuerySchedule
    /\ team_ratings \in Tables({"London Spirit", "Oval Invincibles"}, RatingRows)
    /\ teams \in {<<"London Spirit", "Oval Invincibles">>}
    /\ venue_stats \in Tables({"Lord's, London"}, VenueRows)
    /\ num_simulations = 0
    /\ SimIdle
    /\ query \in [match_id : QueryMatchIds, toss_winner : TossWinners,
                  toss_decision : TossDecisions, total_matches : TotalMatchesDraws]
    /\ prediction = NoPrediction

Predict ==
    /\ prediction.status = "none"
    /\ prediction' = calculate_win_probability(query.match_id, query.toss_winner,
                                               query.toss_decision, query.total_matches)
    /\ UNCHANGED <<refdata, simvars, query>>

NextPredict == Predict

SpecPredict == InitPredict /\ [][NextPredict]_vars

(***************************************************************************)
(* TournamentSimulator: single match                                       *)
(***************************************************************************)
\* simulate_optimal_toss_decision: the decision the venue favours ("none" for a
\* neutral or unknown venue) and the decisions the random draw can return.
\* random.random() > 0.2 and random.choice can each go both ways.
simulate_optimal_toss_decision(venue) ==
    IF venue \notin DOMAIN venue_stats
    THEN [favoured |-> "none", choices |-> {"Bat", "Bowl"}]
    ELSE IF venue_stats[venue].bat_first_win_pct > 52
    THEN [favoured |-> "Bat", choices |-> {"Bat", "Bowl"}]
    ELSE IF venue_stats[venue].bat_first_win_pct < 48
    THEN [favoured |-> "Bowl", choices |-> {"Bowl", "Bat"}]
    ELSE [favoured |-> "none", choices |-> {"Bat", "Bowl"}]

\* The outcomes of random.random() < team1_prob: "low" (the draw is below
\* team1_prob, team1 wins) needs team1_prob > 0, "high" needs team1_prob < 1.
OutcomeDraws(win_prob_team1) ==
    {d \in {"low", "high"} : IF d = "low" THEN win_prob_team1 > 0 ELSE win_prob_team1 < 1000}

\* simulate_single_match with its random draws given.  match_data is a schedule
\* row or the dummy final: the probability comes from calculate_win_probability
\* on match_data's Match_ID, the winner and loser from match_data's teams.
simulate_single_match(match_data, toss_winner, toss_decision, total_matches, draw) ==
    LET match_id == match_data.Match_ID
        team1 == match_data.Team1
        team2 == match_data.Team2
        venue == match_data.Venue
        match_result == calculate_win_probability(match_id, toss_winner, toss_decision,
                                                  total_matches)
    IN  IF match_result.status = "raised"
        THEN [status |-> "raised", error |-> match_result.error, result |-> <<>>]
        ELSE [status |-> "ok", error |-> "none",
              result |-> << [match_id |-> match_id,
                             team1 |-> team1,
                             team2 |-> team2,
                             venue |-> venue,
                             winner |-> IF draw = "low" THEN team1 ELSE team2,
                             loser |-> IF draw = "low" THEN team2 ELSE team1,
                             win_prob_team1 |-> match_result.result[1].win_prob[1],
                             win_prob_team2 |-> match_result.result[1].win_prob[2],
                             toss_winner |-> toss_winner,
                             toss_decision |-> toss_decision] >>]

\* whether the outcome draw is one the sampled probability allows
DrawAllowed(match_data, toss_winner, toss_decision, total_matches, draw) ==
    LET match_result == calculate_win_probability(match_data.Match_ID, toss_winner,
                                                  toss_decision, total_matches)
    IN  match_result.status = "ok" =>
            draw \in OutcomeDraws(match_result.result[1].win_prob[1])

(***************************************************************************)
(* TournamentSimulator: group stage, playoffs                              *)
(***************************************************************************)
\* team_stats that starts every team on a point
ZeroStats_OnePoint == [t \in Range(teams) |-> [wins |-> 0, losses |-> 0, points |-> 1]]

\* Line 88.  A zeroed entry for every team of self.teams.
ZeroStats == [t \in Range(teams) |-> [wins |-> 0, losses |-> 0, points |-> 0]]

\* UpdateStats that does not count the loss
UpdateStats_LoserUncounted(stats, result) ==
    IF result.winner \notin DOMAIN stats \/ result.loser \notin DOMAIN stats
    THEN [status |-> "raised", error |-> "KeyError", stats |-> stats]
    ELSE [status |-> "ok", error |-> "none",
          stats |-> [stats EXCEPT ![result.winner].wins = @ + 1,
                                  ![result.winner].points = @ + PointsPerWin]]

\* Lines 97-99.  The three updates in order; a team without a team_stats entry
\* raises KeyError at its update, after the updates before it.
UpdateStats(stats, result) ==
    IF result.winner \notin DOMAIN stats
    THEN [status |-> "raised", error |-> "KeyError", stats |-> stats]
    ELSE LET won == [stats EXCEPT ![result.winner].wins = @ + 1,
                                  ![result.winner].points = @ + PointsPerWin]
         IN  IF result.loser \notin DOMAIN won
             THEN [status |-> "raised", error |-> "KeyError", stats |-> won]
             ELSE [status |-> "ok", error |-> "none",
                   stats |-> [won EXCEPT ![result.loser].losses = @ + 1]]

\* Lines 102-109.  One standings row per team_stats entry, in insertion order
\* (the order of self.teams).
StandingsRows(stats) ==
    [j \in 1..Len(teams) |-> [team |-> teams[j],
                              wins |-> stats[teams[j]].wins,
                              losses |-> stats[teams[j]].losses,
                              points |-> stats[teams[j]].points]]

\* A stable descending sort (list.sort(key=..., reverse=True) of line 258): rows
\* with equal keys keep their order.  keys[j] is the key of row j; the result is
\* the sequence of row indices in sorted order, built by insertion.
RECURSIVE InsertDesc(_, _, _)
InsertDesc(j, order, keys) ==
    IF order = <<>> THEN <<j>>
    ELSE IF keys[Head(order)] >= keys[j]
         THEN <<Head(order)>> \o InsertDesc(j, Tail(order), keys)
         ELSE <<j>> \o order

RECURSIVE SortOrderUpTo(_, _)
SortOrderUpTo(m, keys) ==
    IF m = 0 THEN <<>>
    ELSE InsertDesc(m, SortOrderUpTo(m - 1, keys), keys)

SortOrderDesc(keys) == SortOrderUpTo(Len(keys), keys)

\* every arrangement of the elements of S as a sequence
RECURSIVE Arrangements(_)
Arrangements(S) ==
    IF S = {} THEN {<<>>}
    ELSE UNION {{<<x>> \o rest : rest \in Arrangements(S \ {x})} : x \in S}

\* DataFrame.sort_values(key, ascending=False) is called without kind=, so the
\* argsort is numpy's default 'quicksort', which is not a stable sort: the result
\* is in descending key order and the order of rows with equal keys is whatever
\* the numpy build produces (insertion order with the scalar insertion sort used
\* for short arrays, another order with the vectorised sorting networks).  The
\* possible outcomes are all the index orders with non-increasing keys.
SortedOrders(keys) ==
    {order \in Arrangements(1..Len(keys)) :
        \A p \in 1..(Len(keys) - 1) : keys[order[p]] >= keys[order[p + 1]]}

PointsOf(rows) == [j \in 1..Len(rows) |-> rows[j].points]

\* the rows of a frame taken in the order an argsort returned
Reordered(rows, order) == [p \in 1..Len(rows) |-> rows[order[p]]]

TeamsOf(rows) == [j \in 1..Len(rows) |-> rows[j].team]

\* determine_playoffs whose eliminator slice starts at rank 3
determine_playoffs_Overlap(standings_df, order) ==
    LET sorted == Reordered(standings_df, order)
        top_3 == TeamsOf(SubSeq(sorted, 1, Min(3, Len(sorted))))
        eliminator_teams == IF Len(sorted) >= 5 THEN TeamsOf(SubSeq(sorted, 3, 5)) ELSE <<>>
    IN  [top_3 |-> top_3,
         eliminator |-> eliminator_teams,
         final_4 |-> IF eliminator_teams # <<>>
                     THEN top_3 \o SubSeq(eliminator_teams, 1, 1)
                     ELSE top_3]

\* determine_playoffs; order is the outcome of the sort_values of line 121
determine_playoffs(standings_df, order) ==
    LET sorted == Reordered(standings_df, order)
        top_3 == TeamsOf(SubSeq(sorted, 1, Min(3, Len(sorted))))
        eliminator_teams == IF Len(sorted) >= 5 THEN TeamsOf(SubSeq(sorted, 4, 5)) ELSE <<>>
    IN  [top_3 |-> top_3,
         eliminator |-> eliminator_teams,
         final_4 |-> IF eliminator_teams # <<>>
                     THEN top_3 \o SubSeq(eliminator_teams, 1, 1)
                     ELSE top_3]

\* Lines 142-151.  The dummy match of the final.
final_match(playoff_teams) ==
    [Match_ID |-> FinalMatchId,
     Team1 |-> playoff_teams.top_3[1],
     Team2 |-> playoff_teams.top_3[2],
     Venue |-> "Lord's, London"]

(***************************************************************************)
(* Reference data of the simulations                                       *)
(***************************************************************************)
Rating(team, bat, bowl, overall) ==
    [Team |-> team, Bat_Rating |-> bat, Bowl_Rating |-> bowl, Overall_Rating |-> overall]

Fixture(id, team1, team2, venue) ==
    [Match_ID |-> id, Team1 |-> team1, Team2 |-> team2, Venue |-> venue]

Venue(bat, bowl, avg, rr) ==
    [bat_first_win_pct |-> bat, bowl_first_win_pct |-> bowl, avg_score |-> avg, run_rate |-> rr]

LS == Rating("London Spirit", 520, 400, 466)
OI == Rating("Oval Invincibles", 600, 500, 555)
MO == Rating("Manchester Originals", 530, 470, 503)
SB == Rating("Southern Brave", 500, 500, 500)
WF == Rating("Welsh Fire", 300, 300, 300)
BP == Rating("Birmingham Phoenix", 500, 500, 500)

SimVenues ==
    ("Lord's, London" :> Venue(45, 55, 148, 82)) @@
    ("Kennington Oval, London" :> Venue(60, 40, 165, 92))

\* The data sets a simulator is constructed on: the rows of team_ratings.csv, the
\* venue table and the schedule, with the largest num_simulations it is run for.
\* "Trent Rockets" and "Headingley, Leeds" have no rating row and no venue row.
Datasets ==
    { \* two rated teams: no final is played
      [ratings |-> <<LS, OI>>, venues |-> SimVenues, max_runs |-> MaxSims,
       schedule |-> << Fixture(1, "London Spirit", "Oval Invincibles", "Lord's, London"),
                       Fixture(2, "Oval Invincibles", "London Spirit", "Headingley, Leeds") >>],
      \* three rated teams, match ids 1..2
      [ratings |-> <<LS, OI, MO>>, venues |-> SimVenues, max_runs |-> MaxSims,
       schedule |-> << Fixture(1, "London Spirit", "Oval Invincibles", "Lord's, London"),
                       Fixture(2, "Manchester Originals", "London Spirit",
                               "Kennington Oval, London") >>],
      \* three, four and five rated teams, a schedule that has a fixture numbered 999
      [ratings |-> <<MO, LS, OI>>, venues |-> SimVenues, max_runs |-> MaxSims + 1,
       schedule |-> << Fixture(999, "London Spirit", "Oval Invincibles",
                               "Kennington Oval, London") >>],
      [ratings |-> <<LS, OI, SB, WF>>, venues |-> SimVenues, max_runs |-> MaxSims - 1,
       schedule |-> << Fixture(999, "Southern Brave", "Welsh Fire",
                               "Kennington Oval, London") >>],
      [ratings |-> <<LS, OI, MO, SB, WF>>, venues |-> SimVenues, max_runs |-> MaxSims - 1,
       schedule |-> << Fixture(999, "Southern Brave", "Welsh Fire",
                               "Kennington Oval, London") >>],
      \* a scheduled team without a rating row
      [ratings |-> <<LS, OI>>, venues |-> SimVenues, max_runs |-> MaxSims,
       schedule |-> << Fixture(1, "London Spirit", "Oval Invincibles", "Lord's, London"),
                       Fixture(2, "Trent Rockets", "London Spirit",
                               "Kennington Oval, London") >>],
      \* degenerate inputs
      [ratings |-> <<>>, venues |-> SimVenues, max_runs |-> MaxSims, schedule |-> <<>>],
      [ratings |-> <<LS>>, venues |-> SimVenues, max_runs |-> MaxSims, schedule |-> <<>>],
      [ratings |-> <<LS, OI, MO>>, venues |-> SimVenues, max_runs |-> MaxSims,
       schedule |-> <<>>] }

\* __init__: self.teams and the analyzer's team_ratings lookup
TeamsOfRatings(ratings) == [j \in 1..Len(ratings) |-> ratings[j].Team]

LookupOfRatings(ratings) ==
    [t \in Range(TeamsOfRatings(ratings)) |->
        LET j == CHOOSE l \in 1..Len(ratings) :
                    /\ ratings[l].Team = t
                    /\ \A m \in (l + 1)..Len(ratings) : ratings[m].Team # t
        IN  [batting |-> ratings[j].Bat_Rating,
             bowling |-> ratings[j].Bowl_Rating,
             overall |-> ratings[j].Overall_Rating]]

\* The head-to-head draws made inside the simulations.  SpecPredict covers every
\* draw of 8..15; the driver's bookkeeping does not read the draw.
SimTotalMatches == {H2HMaxMatches}

(***************************************************************************)
(* Specification of the Monte Carlo driver                                 *)
(***************************************************************************)
Init ==
    /\ \E d \in Datasets :
        /\ schedule_df = d.schedule
        /\ teams = TeamsOfRatings(d.ratings)
        /\ team_ratings = LookupOfRatings(d.ratings)
        /\ venue_stats = d.venues
        /\ num_simulations \in 0..d.max_runs
    /\ SimIdle
    /\ query = NoQuery
    /\ prediction = NoPrediction

\* the defaultdict reads and updates of run_multiple_simulations
DictGet(d, k, default) == IF k \in DOMAIN d THEN d[k] ELSE default

\* the counting loop started at the second team
RECURSIVE CountAll_SkipFirst(_, _)
CountAll_SkipFirst(d, ks) ==
    IF Len(ks) <= 1 THEN d
    ELSE LET k2 == ks[2]
         IN  CountAll_SkipFirst([k \in DOMAIN d \cup {k2} |->
                                    IF k = k2 THEN DictGet(d, k, 0) + 1 ELSE d[k]],
                                <<ks[1]>> \o SubSeq(ks, 3, Len(ks)))

RECURSIVE CountAll(_, _)
CountAll(d, ks) ==
    IF ks = <<>> THEN d
    ELSE CountAll([k \in DOMAIN d \cup {Head(ks)} |->
                      IF k = Head(ks) THEN DictGet(d, k, 0) + 1 ELSE d[k]], Tail(ks))

\* the points put at the front of the list instead of the end
RECURSIVE AppendPoints_Prepend(_, _)
AppendPoints_Prepend(d, rows) ==
    IF rows = <<>> THEN d
    ELSE AppendPoints_Prepend([k \in DOMAIN d \cup {Head(rows).team} |->
                                  IF k = Head(rows).team
                                  THEN <<Head(rows).points>> \o DictGet(d, k, <<>>)
                                  ELSE d[k]], Tail(rows))

RECURSIVE AppendPoints(_, _)
AppendPoints(d, rows) ==
    IF rows = <<>> THEN d
    ELSE AppendPoints([k \in DOMAIN d \cup {Head(rows).team} |->
                          IF k = Head(rows).team
                          THEN Append(DictGet(d, k, <<>>), Head(rows).points)
                          ELSE d[k]], Tail(rows))

\* lines 201-202 with every run's list kept as the sample
SampleMatchResults_Latest(run, run_match_results, kept) == run_match_results

\* lines 201-202: the list of run 0 is kept
SampleMatchResults(run, run_match_results, kept) ==
    IF run = 0 THEN run_match_results ELSE kept

\* an exception that is caught and the run skipped
Raise_SkipRun(e) ==
    /\ pc' = "loop"
    /\ error' = e

\* an exception that nothing catches: the call is over
Raise(e) ==
    /\ pc' = "error"
    /\ error' = e

\* run_multiple_simulations is called: lines 176-179
RunMultipleSimulations ==
    /\ pc = "idle"
    /\ pc' = "loop"
    /\ i' = 0
    /\ winners' = <<>>
    /\ playoff_appearances' = <<>>
    /\ final_standings' = <<>>
    /\ all_match_results' = <<>>
    /\ UNCHANGED <<refdata, queryvars, crucial_matches, error, team_stats, match_results, sim_result,
                   final_results, analysis>>

\* line 181 with i < num_simulations, then run_simulation enters
\* simulate_group_stage: lines 88-89.  The result of the run before is not read again.
BeginRun ==
    /\ pc = "loop"
    /\ i < num_simulations
    /\ pc' = "group"
    /\ team_stats' = ZeroStats
    /\ match_results' = <<>>
    /\ final_results' = <<>>
    /\ sim_result' = <<>>
    /\ UNCHANGED <<refdata, queryvars, crucial_matches, error, i, winners, playoff_appearances,
                   final_standings, all_match_results, analysis>>

\* one iteration of the loop of simulate_group_stage: lines 92-99
SimulateGroupMatch ==
    /\ pc = "group"
    /\ Len(match_results) < Len(schedule_df)
    /\ LET match == schedule_df[Len(match_results) + 1] IN
       \E toss_winner \in TossWinners,
          toss_decision \in simulate_optimal_toss_decision(match.Venue).choices,
          total_matches \in SimTotalMatches,
          draw \in {"low", "high"} :
            /\ DrawAllowed(match, toss_winner, toss_decision, total_matches, draw)
            /\ LET played == simulate_single_match(match, toss_winner, toss_decision,
                                                   total_matches, draw)
               IN  IF played.status = "raised"
                   THEN /\ Raise(played.error)
                        /\ UNCHANGED <<team_stats, match_results>>
                   ELSE LET updated == UpdateStats(team_stats, played.result[1])
                        IN  /\ match_results' = Append(match_results, played.result[1])
                            /\ team_stats' = updated.stats
                            /\ IF updated.status = "raised"
                               THEN Raise(updated.error)
                               ELSE UNCHANGED <<pc, error>>
    /\ UNCHANGED <<refdata, queryvars, crucial_matches, i, sim_result, final_results, winners,
                   playoff_appearances, final_standings, all_match_results, analysis>>

\* simulate_playoffs that has no champion when no final is played
simulate_playoffs_NoDefault(playoff_teams, toss_winner, toss_decision, total_matches, draw) ==
    IF Len(playoff_teams.top_3) < 3
    THEN [status |-> "ok", error |-> "none", winner |-> NoTeam, finals |-> <<>>, calls |-> 0]
    ELSE LET final_result == simulate_single_match(final_match(playoff_teams), toss_winner,
                                                   toss_decision, total_matches, draw)
         IN  IF final_result.status = "raised"
             THEN [status |-> "raised", error |-> final_result.error, winner |-> NoTeam,
                   finals |-> <<>>, calls |-> 1]
             ELSE [status |-> "ok", error |-> "none",
                   winner |-> final_result.result[1].winner,
                   finals |-> final_result.result, calls |-> 1]

\* simulate_playoffs with the random draws of its final given.  finals holds the
\* results of the simulate_single_match calls that returned, calls counts the calls made.
simulate_playoffs(playoff_teams, toss_winner, toss_decision, total_matches, draw) ==
    IF Len(playoff_teams.top_3) < 3
    THEN IF playoff_teams.top_3 # <<>>
         THEN [status |-> "ok", error |-> "none", winner |-> playoff_teams.top_3[1],
               finals |-> <<>>, calls |-> 0]
         ELSE IF teams # <<>>
         THEN [status |-> "ok", error |-> "none", winner |-> teams[1],
               finals |-> <<>>, calls |-> 0]
         ELSE [status |-> "raised", error |-> "IndexError", winner |-> NoTeam,
               finals |-> <<>>, calls |-> 0]
    ELSE LET final_result == simulate_single_match(final_match(playoff_teams), toss_winner,
                                                   toss_decision, total_matches, draw)
         IN  IF final_result.status = "raised"
             THEN [status |-> "raised", error |-> final_result.error, winner |-> NoTeam,
                   finals |-> <<>>, calls |-> 1]
             ELSE [status |-> "ok", error |-> "none",
                   winner |-> final_result.result[1].winner,
                   finals |-> final_result.result, calls |-> 1]

\* Lines 111 and 121 sort the same frame by the same key twice.  Whatever the
\* second sort does to rows with equal points, the frame it leaves is again one of
\* the outcomes of the first, so the choice of order_111 ranges over every order
\* determine_playoffs can see and order_121 leaves that frame as it is.
\* The rest of one iteration of run_multiple_simulations, once every fixture is
\* played: lines 101-111 (standings), run_simulation lines 162-170
\* (determine_playoffs, simulate_playoffs) and lines 187-202 (aggregation).
\* pd.DataFrame([]) has no 'points' column: sort_values raises KeyError without teams.
\* team_stats, match_results and the standings frame are locals: once the
\* iteration has read them (the points into final_standings) they are dropped; the
\* list of the first run lives on as all_match_results.  The draws of the final
\* are made only when it is played.
CompleteRun ==
    /\ pc = "group"
    /\ Len(match_results) = Len(schedule_df)
    /\ IF teams = <<>>
       THEN /\ Raise("KeyError")
            /\ UNCHANGED <<i, team_stats, match_results, sim_result, final_results, winners,
                           playoff_appearances, final_standings, all_match_results>>
       ELSE \E order_111 \in SortedOrders(PointsOf(StandingsRows(team_stats))) :
            LET standings_df == Reordered(StandingsRows(team_stats), order_111)
                order_121 == [p \in 1..Len(standings_df) |-> p]
                playoff_teams == determine_playoffs(standings_df, order_121)
                final_played == Len(playoff_teams.top_3) >= 3
            IN  \E toss_winner \in IF final_played THEN TossWinners ELSE {"Team A"},
                   toss_decision \in IF final_played
                                     THEN simulate_optimal_toss_decision("Lord's, London").choices
                                     ELSE {"Bat"},
                   total_matches \in IF final_played THEN SimTotalMatches ELSE {H2HMinMatches},
                   draw \in IF final_played THEN {"low", "high"} ELSE {"low"} :
                    /\ final_played =>
                           DrawAllowed(final_match(playoff_teams), toss_winner, toss_decision,
                                       total_matches, draw)
                    /\ LET played == simulate_playoffs(playoff_teams, toss_winner,
                                                       toss_decision, total_matches, draw)
                       IN  IF played.status = "raised"
                           THEN /\ Raise(played.error)
                                /\ final_results' = played.finals
                                /\ UNCHANGED <<i, team_stats, match_results, sim_result,
                                               winners, playoff_appearances,
                                               final_standings, all_match_results>>
                           ELSE /\ final_results' = played.finals
                                /\ sim_result' = << [winner |-> played.winner,
                                                     playoff_teams |-> playoff_teams] >>
                                /\ winners' = Append(winners, played.winner)
                                /\ playoff_appearances' =
                                       CountAll(CountAll(playoff_appearances,
                                                         playoff_teams.top_3),
                                                playoff_teams.eliminator)
                                /\ final_standings' = AppendPoints(final_standings, standings_df)
                                /\ all_match_results' =
                                       SampleMatchResults(i, match_results, all_match_results)
                                /\ i' = i + 1
                                /\ team_stats' = <<>>
                                /\ match_results' = <<>>
                                /\ pc' = "loop"
                                /\ error' = error
    /\ UNCHANGED <<refdata, queryvars, crucial_matches, analysis>>

\* line 181 with the range exhausted, then the return of lines 204-209: the
\* locals that are not returned are gone
ReturnResults ==
    /\ pc = "loop"
    /\ i >= num_simulations
    /\ pc' = "returned"
    /\ sim_result' = <<>>
    /\ final_results' = <<>>
    /\ UNCHANGED <<refdata, queryvars, crucial_matches, error, i, team_stats, match_results,
                   winners, playoff_appearances, final_standings,
                   all_match_results, analysis>>

(***************************************************************************)
(* analyze_results                                                         *)
(***************************************************************************)
RECURSIVE Count(_, _)
Count(s, x) ==
    IF s = <<>> THEN 0
    ELSE (IF Head(s) = x THEN 1 ELSE 0) + Count(Tail(s), x)

\* round((count / num_simulations) * 100, 1), in tenths
Percentage(count, n) == RoundHalfEven(1000 * count, n)

\* rows only for the teams that have an appearance counter
AnalysisRows_SeenOnly(winner_list, appearances, n) ==
    LET rows[j \in 0..Len(teams)] ==
            IF j = 0 THEN <<>>
            ELSE rows[j - 1] \o
                 (IF teams[j] \in DOMAIN appearances
                  THEN << [Team |-> teams[j],
                           Win_Probability |-> Percentage(Count(winner_list, teams[j]), n),
                           Playoff_Probability |-> Percentage(appearances[teams[j]], n),
                           Titles_Won |-> Count(winner_list, teams[j]),
                           Playoff_Appearances |-> appearances[teams[j]]] >>
                  ELSE <<>>)
    IN  rows[Len(teams)]

\* lines 220-230: one row per team of self.teams, in that order
AnalysisRows(winner_list, appearances, n) ==
    [j \in 1..Len(teams) |->
        [Team |-> teams[j],
         Win_Probability |-> Percentage(Count(winner_list, teams[j]), n),
         Playoff_Probability |-> Percentage(DictGet(appearances, teams[j], 0), n),
         Titles_Won |-> Count(winner_list, teams[j]),
         Playoff_Appearances |-> DictGet(appearances, teams[j], 0)]]

WinProbabilityOf(rows) == [j \in 1..Len(rows) |-> rows[j].Win_Probability]

\* the outcomes of the sort_values of line 232 ({<<>>} when the call raises before it)
AnalysisOrders(winner_list, appearances, n) ==
    IF teams = <<>> \/ n = 0 THEN {<<>>}
    ELSE SortedOrders(WinProbabilityOf(AnalysisRows(winner_list, appearances, n)))

\* analyze_results on the returned simulation data; order is the outcome of the
\* sort_values of line 232.  The first division of line 221 raises
\* ZeroDivisionError when num_simulations is 0; without teams the empty frame has
\* no 'Win_Probability_%' column to sort by.
analyze_results(winner_list, appearances, n, order) ==
    IF teams # <<>> /\ n = 0
    THEN [status |-> "raised", error |-> "ZeroDivisionError", rows |-> <<>>]
    ELSE IF teams = <<>>
    THEN [status |-> "raised", error |-> "KeyError", rows |-> <<>>]
    ELSE [status |-> "ok", error |-> "none",
          rows |-> Reordered(AnalysisRows(winner_list, appearances, n), order)]

\* reading playoff_appearances[team] on the defaultdict inserts the default 0
AnalyzeResults ==
    /\ pc = "returned"
    /\ \E order \in AnalysisOrders(winners, playoff_appearances, num_simulations) :
       LET analysed == analyze_results(winners, playoff_appearances, num_simulations, order)
       IN  IF analysed.status = "raised"
           THEN /\ Raise(analysed.error)
                /\ UNCHANGED <<analysis, playoff_appearances>>
           ELSE /\ analysis' = analysed.rows
                /\ playoff_appearances' =
                       [t \in DOMAIN playoff_appearances \cup Range(teams) |->
                           DictGet(playoff_appearances, t, 0)]
                /\ pc' = "analyzed"
                /\ error' = error
    /\ UNCHANGED <<refdata, queryvars, crucial_matches, i, team_stats, match_results, sim_result,
                   final_results, winners, final_standings, all_match_results>>

(***************************************************************************)
(* find_crucial_matches                                                    *)
(***************************************************************************)
\* line 239: team_ratings_df.nlargest(4, 'Overall_Rating')['Team'].  nlargest
\* keeps the first of equally rated rows (keep='first').
top_teams ==
    LET order == SortOrderDesc([j \in 1..Len(teams) |-> team_ratings[teams[j]].overall])
    IN  {teams[order[p]] : p \in 1..Min(TopTeamCount, Len(teams))}

\* lines 244-255: the entry of one match.  The two probabilities are tenths, so
\* the difference and the score are exact and round(x, 1) leaves them as they are.
CrucialEntry(match) ==
    LET prob_diff == Abs(match.win_prob_team1 - match.win_prob_team2)
    IN  [match_id |-> match.match_id,
         teams |-> <<match.team1, "vs", match.team2>>,
         venue |-> match.venue,
         winner |-> match.winner,
         importance_score |-> 1000 - prob_diff,
         prob_difference |-> prob_diff]

\* the filter of line 243 taken over any team: every match has an entry
RECURSIVE CrucialCandidates_AnyTeams(_)
CrucialCandidates_AnyTeams(sample) ==
    IF sample = <<>> THEN <<>>
    ELSE <<CrucialEntry(Head(sample))>>
             \o CrucialCandidates_AnyTeams(Tail(sample))

\* lines 241-255: the entries of the matches between two top teams, in sample order
RECURSIVE CrucialCandidates(_)
CrucialCandidates(sample) ==
    IF sample = <<>> THEN <<>>
    ELSE (IF Head(sample).team1 \in top_teams /\ Head(sample).team2 \in top_teams
          THEN <<CrucialEntry(Head(sample))>>
          ELSE <<>>) \o CrucialCandidates(Tail(sample))

\* lines 257-259: list.sort(reverse=True) is stable, then the first five
find_crucial_matches(sample) ==
    LET candidates == CrucialCandidates(sample)
        order == SortOrderDesc([j \in 1..Len(candidates) |-> candidates[j].importance_score])
        sorted == [p \in 1..Len(candidates) |-> candidates[order[p]]]
    IN  SubSeq(sorted, 1, Min(CrucialLimit, Len(sorted)))

\* main, line 320, on the sample of the returned data; "sampled" is a simulator
\* on which simulate_group_stage()['match_results'] is at hand as the sample
FindCrucialMatches ==
    /\ pc \in {"analyzed", "sampled"}
    /\ crucial_matches' = find_crucial_matches(all_match_results)
    /\ pc' = "reported"
    /\ UNCHANGED <<refdata, queryvars, error, i, team_stats, match_results, sim_result,
                   final_results, winners, playoff_appearances, final_standings,
                   all_match_results, analysis>>

Next ==
    \/ RunMultipleSimulations
    \/ BeginRun
    \/ SimulateGroupMatch
    \/ CompleteRun
    \/ ReturnResults
    \/ AnalyzeResults
    \/ FindCrucialMatches

Spec == Init /\ [][Next]_vars

(***************************************************************************)
(* Specification of find_crucial_matches on the match results of one group *)
(* stage: a league of six rated teams, the first fixtures of its schedule  *)
(* played with the toss drawn per fixture.                                 *)
(***************************************************************************)
MaxFixtures == 8

CrucialRatings == <<LS, OI, MO, SB, BP, WF>>

CrucialFixtures ==
    << Fixture(1, "Oval Invincibles", "Manchester Originals", "Lord's, London"),
       Fixture(2, "London Spirit", "Oval Invincibles", "Kennington Oval, London"),
       Fixture(3, "Southern Brave", "Birmingham Phoenix", "Headingley, Leeds"),
       Fixture(4, "Manchester Originals", "Southern Brave", "Lord's, London"),
       Fixture(5, "Birmingham Phoenix", "Oval Invincibles", "Kennington Oval, London"),
       Fixture(6, "Welsh Fire", "Oval Invincibles", "Lord's, London"),
       Fixture(7, "Birmingham Phoenix", "Southern Brave", "Kennington Oval, London"),
       Fixture(8, "Oval Invincibles", "Southern Brave", "Headingley, Leeds"),
       Fixture(9, "Manchester Originals", "Birmingham Phoenix", "Lord's, London") >>

\* simulate_group_stage's match_results for the fixtures of schedule_df, fixture j
\* played with toss winner toss_winners[j], the venue's favoured decision (Bowl
\* where none is favoured) and team1 drawn as the winner
GroupStageSample(toss_winners) ==
    [j \in 1..Len(schedule_df) |->
        LET favoured == simulate_optimal_toss_decision(schedule_df[j].Venue).favoured
        IN  simulate_single_match(schedule_df[j], toss_winners[j],
                                  IF favoured = "none" THEN "Bowl" ELSE favoured,
                                  H2HMaxMatches, "low").result[1]]

InitCrucial ==
    /\ \E k \in 0..Min(MaxFixtures, Len(CrucialFixtures)) :
           schedule_df = SubSeq(CrucialFixtures, 1, k)
    /\ teams = TeamsOfRatings(CrucialRatings)
    /\ team_ratings = LookupOfRatings(CrucialRatings)
    /\ venue_stats = SimVenues
    /\ num_simulations = 0
    /\ \E toss_winners \in [1..Len(schedule_df) -> TossWinners] :
           all_match_results = GroupStageSample(toss_winners)
    /\ pc = "sampled"
    /\ error = "none"
    /\ i = 0
    /\ team_stats = <<>>
    /\ match_results = <<>>
    /\ sim_result = <<>>
    /\ final_results = <<>>
    /\ winners = <<>>
    /\ playoff_appearances = <<>>
    /\ final_standings = <<>>
    /\ analysis = <<>>
    /\ crucial_matches = <<>>
    /\ query = NoQuery
    /\ prediction = NoPrediction

NextCrucial == FindCrucialMatches

SpecCrucial == InitCrucial /\ [][NextCrucial]_vars

(***************************************************************************)
(* Properties                                                              *)
(***************************************************************************)
ScheduleIds == {schedule_df[j].Match_ID : j \in 1..Len(schedule_df)}

WinsColumn(rows) == [j \in 1..Len(rows) |-> rows[j].wins]
LossesColumn(rows) == [j \in 1..Len(rows) |-> rows[j].losses]
TitlesColumn(rows) == [j \in 1..Len(rows) |-> rows[j].Titles_Won]

\* C1: whenever calculate_win_probability returns a result, the two reported
\* probabilities sum to exactly 100 and each lies in [15, 85] (tenths: 1000, 150, 850).
C1_ProbabilitiesSumTo100InClamp ==
    prediction.status = "ok" =>
        LET win_prob == prediction.result[1].win_prob
        IN  /\ win_prob[1] + win_prob[2] = 1000
            /\ win_prob[1] >= 150 /\ win_prob[1] <= 850
            /\ win_prob[2] >= 150 /\ win_prob[2] <= 850

\* a query whose unclamped value exceeds 85 although the other team won the toss
C1_Witness ==
    /\ prediction.status = "ok"
    /\ prediction.result[1].win_prob = <<850, 150>>
    /\ query.toss_winner = "Team B"

\* C2: with at least 3 teams in the standings the playoff resolver plays exactly
\* one final, between rank 1 and rank 2, under a match id that is no fixture of the
\* schedule, raises no error, and its champion is one of the two (a rated team).
C2_FinalBetweenTopTwoCompletes ==
    Len(teams) >= 3 =>
        /\ ~(pc = "error" /\ error \in {"ValueError", "IndexError"})
        /\ (pc = "loop" /\ i >= 1) =>
            LET top_3 == sim_result[1].playoff_teams.top_3
            IN  /\ Len(final_results) = 1
                /\ final_results[1].match_id \notin ScheduleIds
                /\ final_results[1].team1 = top_3[1]
                /\ final_results[1].team2 = top_3[2]
                /\ sim_result[1].winner \in {top_3[1], top_3[2]}
                /\ sim_result[1].winner \in Range(teams)

\* C3: during and after the loop of simulate_group_stage, match_results holds one
\* entry per fixture played, in schedule order, whose winner and loser are the two
\* distinct teams of that fixture; over the standings rows wins and losses each
\* total the number of fixtures played, and every row has points = 2 x wins.
C3_OneDecisionPerFixture ==
    pc = "group" =>
        LET rows == StandingsRows(team_stats)
        IN  /\ Len(match_results) <= Len(schedule_df)
            /\ \A j \in 1..Len(match_results) :
                /\ match_results[j].match_id = schedule_df[j].Match_ID
                /\ {match_results[j].winner, match_results[j].loser}
                       = {schedule_df[j].Team1, schedule_df[j].Team2}
                /\ match_results[j].winner # match_results[j].loser
            /\ SumSeq(WinsColumn(rows)) = Len(match_results)
            /\ SumSeq(LossesColumn(rows)) = Len(match_results)
            /\ \A j \in 1..Len(rows) : rows[j].points = 2 * rows[j].wins

\* the group stage of a two-fixture schedule is complete and a team has won one
\* fixture and lost the other
C3_Witness ==
    /\ pc = "group"
    /\ Len(schedule_df) = 2
    /\ Len(match_results) = Len(schedule_df)
    /\ \E t \in DOMAIN team_stats : team_stats[t].wins = 1 /\ team_stats[t].losses = 1

\* C4: once analyze_results has returned, Titles_Won summed over its rows equals
\* num_simulations and every recorded champion is the team of some row.
C4_TitlesSumToRuns ==
    pc = "analyzed" =>
        /\ SumSeq(TitlesColumn(analysis)) = num_simulations
        /\ \A j \in 1..Len(winners) :
               \E l \in 1..Len(analysis) : analysis[l].Team = winners[j]

\* two runs were analysed and two different teams won one title each
C4_Witness ==
    /\ pc = "analyzed"
    /\ num_simulations = 2
    /\ \E j, l \in 1..Len(analysis) :
        j # l /\ analysis[j].Titles_Won = 1 /\ analysis[l].Titles_Won = 1

\* C5: on return of run_multiple_simulations the winners list and every team's
\* points list have exactly num_simulations entries; each completed run appends to
\* every team's list that team's points total of the run, and nothing else changes
\* the lists.
C5_LengthsOnReturn ==
    pc \in {"returned", "analyzed"} =>
        /\ Len(winners) = num_simulations
        /\ \A t \in Range(teams) : Len(DictGet(final_standings, t, <<>>)) = num_simulations

C5_RunStep ==
    IF pc = "group" /\ pc' = "loop"
    THEN /\ i' = i + 1
         /\ Len(winners') = i'
         /\ \A t \in Range(teams) :
                /\ final_standings'[t] = Append(DictGet(final_standings, t, <<>>),
                                                team_stats[t].points)
                /\ Len(final_standings'[t]) = i'
    ELSE pc # "idle" => (final_standings' = final_standings /\ winners' = winners /\ i' = i)

C5_ExactlyNRuns == []C5_LengthsOnReturn /\ [][C5_RunStep]_vars

\* two runs returned and a team scored differently in them
C5_Witness ==
    /\ pc = "returned"
    /\ num_simulations = 2
    /\ \E t \in DOMAIN final_standings : final_standings[t] = <<4, 0>>

\* C6: after one or more completed runs every team has at most as many titles as
\* playoff appearances, the champion of the last run is in that run's top-3 or
\* eliminator set, and in the analysis Playoff_Probability >= Win_Probability.
C6_TitlesWithinAppearances ==
    /\ (pc \in {"loop", "returned"} /\ i >= 1) =>
           \A t \in Range(teams) : Count(winners, t) <= DictGet(playoff_appearances, t, 0)
    /\ (pc = "loop" /\ i >= 1) =>
           sim_result[1].winner \in Range(sim_result[1].playoff_teams.top_3)
                                    \cup Range(sim_result[1].playoff_teams.eliminator)
    /\ (pc = "analyzed" /\ num_simulations >= 1) =>
           \A j \in 1..Len(analysis) :
               /\ analysis[j].Titles_Won <= analysis[j].Playoff_Appearances
               /\ analysis[j].Win_Probability <= analysis[j].Playoff_Probability

\* an analysis in which one team has a title and another never reached a playoff set
C6_Witness ==
    /\ pc = "analyzed"
    /\ num_simulations >= 1
    /\ \E j, l \in 1..Len(analysis) :
        /\ analysis[j].Titles_Won >= 1
        /\ analysis[l].Playoff_Appearances = 0

\* C7: with num_simulations = 0 the driver and analyze_results complete without a
\* division by zero and give every team a row with both probabilities 0.
C7_ZeroRunsGiveZeroRows ==
    (num_simulations = 0 /\ teams # <<>>) =>
        /\ pc # "error"
        /\ pc = "analyzed" =>
               /\ Len(analysis) = Len(teams)
               /\ \A j \in 1..Len(analysis) :
                      analysis[j].Win_Probability = 0 /\ analysis[j].Playoff_Probability = 0

\* C8: a query for a match id that is not in the schedule ends with the not-found
\* error (ValueError) and no result; the query leaves the schedule, the ratings and
\* the venue table unchanged and its outcome is final.
C8_AbsentRaises ==
    (prediction.status # "none" /\ query.match_id \notin ScheduleIds) =>
        prediction = [status |-> "raised", error |-> "ValueError", result |-> <<>>]

C8_QueryStep ==
    /\ refdata' = refdata
    /\ prediction.status # "none" => prediction' = prediction

C8_UnknownMatchIdRaises == []C8_AbsentRaises /\ [][C8_QueryStep]_vars

\* a query for an absent match id has been answered
C8_Witness ==
    /\ prediction.status = "raised"
    /\ query.match_id \notin ScheduleIds

\* C9: a query for a scheduled fixture always returns a result, and it is the
\* result the formula gives when a team without a rating row counts as
\* 50 / 50 / 50 and a venue without a profile as 50% / 50% / 150 / 8.5.
C9_MissingDataUsesNeutralDefaults ==
    (prediction.status # "none" /\ query.match_id \in ScheduleIds) =>
        LET fixture == schedule_df[CHOOSE j \in 1..Len(schedule_df) :
                                       schedule_df[j].Match_ID = query.match_id]
            neutral == [batting |-> 500, bowling |-> 500, overall |-> 500]
            r1 == IF fixture.Team1 \in DOMAIN team_ratings
                  THEN team_ratings[fixture.Team1] ELSE neutral
            r2 == IF fixture.Team2 \in DOMAIN team_ratings
                  THEN team_ratings[fixture.Team2] ELSE neutral
            v  == IF fixture.Venue \in DOMAIN venue_stats
                  THEN venue_stats[fixture.Venue]
                  ELSE [bat_first_win_pct |-> 50, bowl_first_win_pct |-> 50,
                        avg_score |-> 150, run_rate |-> 85]
            wins == H2HWins(r1.overall, r2.overall, query.total_matches)
            h2h == [total_matches |-> query.total_matches,
                    team1_wins |-> wins,
                    team2_wins |-> query.total_matches - wins,
                    team1_win_pct |-> <<wins * 100, query.total_matches>>,
                    team2_win_pct |-> <<(query.total_matches - wins) * 100,
                                        query.total_matches>>]
        IN  /\ prediction.status = "ok"
            /\ prediction.result[1].win_prob =
                   WinProb(PreNormal(r1, r2, v, h2h, query.toss_winner, query.toss_decision),
                           BaseDen(h2h))
            /\ prediction.result[1].head_to_head = <<wins, query.total_matches - wins>>
            /\ prediction.result[1].venue_impact =
                   <<v.bat_first_win_pct, v.bowl_first_win_pct>>

\* a fixture answered with team1's rating and the venue's profile both missing
C9_Witness ==
    /\ prediction.status = "ok"
    /\ "London Spirit" \notin DOMAIN team_ratings
    /\ "Oval Invincibles" \in DOMAIN team_ratings
    /\ "Lord's, London" \notin DOMAIN venue_stats

\* C10: a schedule that contains a team without a rating row does not make the
\* group stage fail: no KeyError ends a run after a fixture was played.
C10_UnratedTeamNotFatal ==
    (\E j \in 1..Len(schedule_df) :
        schedule_df[j].Team1 \notin Range(teams) \/ schedule_df[j].Team2 \notin Range(teams))
    => ~(pc = "error" /\ error = "KeyError" /\ Len(match_results) >= 1)

\* whether every team of the schedule has a rating row
AllScheduledRated ==
    \A j \in 1..Len(schedule_df) :
        schedule_df[j].Team1 \in Range(teams) /\ schedule_df[j].Team2 \in Range(teams)

\* C11: with fewer than 3 rated teams (2, 1 or 0) or an empty schedule, no run ends
\* in an error, and every completed run has a champion found without a final.
C11_DegenerateGivesChampion ==
    ((Len(teams) < 3 \/ schedule_df = <<>>) /\ AllScheduledRated /\ num_simulations >= 1) =>
        /\ pc # "error"
        /\ (pc = "loop" /\ i >= 1) =>
               /\ final_results = <<>>
               /\ sim_result[1].winner # NoTeam

\* C12: for an answered query the toss winner's slot holds its blended base
\* probability plus 15 (Bat with bat_first_win_pct > 50, or Bowl with
\* bowl_first_win_pct > 50) or plus 7.5 (every other case), the other slot holds its
\* blended base probability unchanged, the total before normalisation is 115 or
\* 107.5, and the reported pair is the normalised, clamped and rounded pair.
C12_TossBonusOneSlot ==
    prediction.status = "ok" =>
        LET fixture == schedule_df[MatchRow(query.match_id)]
            r1 == get_team_rating(fixture.Team1)
            r2 == get_team_rating(fixture.Team2)
            v == get_venue_impact(fixture.Venue)
            h2h == get_head_to_head_record(fixture.Team1, fixture.Team2, query.total_matches)
            den == BaseDen(h2h)
            base1 == BlendedBase1(r1, r2, h2h)
            base2 == 100 * den - base1
            pre == PreNormal(r1, r2, v, h2h, query.toss_winner, query.toss_decision)
            favourable == \/ query.toss_decision = "Bat" /\ v.bat_first_win_pct > 50
                          \/ query.toss_decision = "Bowl" /\ v.bowl_first_win_pct > 50
            \* 15 is 30/2 and 7.5 is 15/2
            twice_bonus == IF favourable THEN 30 ELSE 15
        IN  /\ IF query.toss_winner = "Team A"
               THEN 2 * pre[1] = 2 * base1 + twice_bonus * den /\ pre[2] = base2
               ELSE 2 * pre[2] = 2 * base2 + twice_bonus * den /\ pre[1] = base1
            /\ 2 * (pre[1] + pre[2]) \in {230 * den, 215 * den}
            /\ prediction.result[1].win_prob = WinProb(pre, den)

\* Team B won the toss and chose to bat at a venue where only bowling first is
\* favourable: a half bonus on slot 2
C12_Witness ==
    /\ prediction.status = "ok"
    /\ query.toss_winner = "Team B"
    /\ query.toss_decision = "Bat"
    /\ "Lord's, London" \in DOMAIN venue_stats
    /\ venue_stats["Lord's, London"].bat_first_win_pct = 45
    /\ venue_stats["Lord's, London"].bowl_first_win_pct = 55

\* C13: for two teams of equal overall rating at a neutral venue the blended base
\* probabilities (before the toss bonus) are exactly 50 and 50, whatever the
\* head-to-head draw.
C13_EqualRatingsFiftyFifty ==
    LET fixture == schedule_df[MatchRow(query.match_id)]
        r1 == get_team_rating(fixture.Team1)
        r2 == get_team_rating(fixture.Team2)
        v == get_venue_impact(fixture.Venue)
        h2h == get_head_to_head_record(fixture.Team1, fixture.Team2, query.total_matches)
    IN  (/\ prediction.status = "ok"
         /\ r1.overall = r2.overall
         /\ v.bat_first_win_pct = 50 /\ v.bowl_first_win_pct = 50) =>
            /\ 2 * BlendedBase1(r1, r2, h2h) = 100 * BaseDen(h2h)
            /\ prediction.result[1].head_to_head[1] = prediction.result[1].head_to_head[2]

AppearancesColumn ==
    [j \in 1..Len(teams) |-> DictGet(playoff_appearances, teams[j], 0)]

\* C14: a team's playoff-appearance count never exceeds the number of completed
\* runs, only rated teams are counted, and with at least 5 teams the counts total
\* 5 x the number of completed runs; a completed run adds exactly 1 to the count of
\* every team of its top-3 and eliminator sets and nothing to any other, the two
\* sets are disjoint and are ranks 1-3 and ranks 4-5 of the standings by points
\* (3 and 2 teams, the eliminator set empty below 5 teams), and no other step
\* changes a count.
C14_CountsBounded ==
    /\ \A t \in Range(teams) : DictGet(playoff_appearances, t, 0) <= i
    /\ DOMAIN playoff_appearances \subseteq Range(teams)
    /\ Len(teams) >= 5 => SumSeq(AppearancesColumn) = 5 * i

C14_RunStep ==
    IF pc = "group" /\ pc' = "loop"
    THEN LET top_3 == Range(sim_result'[1].playoff_teams.top_3)
             eliminator == Range(sim_result'[1].playoff_teams.eliminator)
         IN  /\ top_3 \cap eliminator = {}
             /\ Cardinality(top_3) = Min(3, Len(teams))
             /\ Cardinality(eliminator) = IF Len(teams) >= 5 THEN 2 ELSE 0
             /\ \A t \in top_3 : \A u \in Range(teams) \ top_3 :
                    team_stats[t].points >= team_stats[u].points
             /\ \A t \in eliminator : \A u \in Range(teams) \ (top_3 \cup eliminator) :
                    team_stats[t].points >= team_stats[u].points
             /\ \A t \in Range(teams) :
                    DictGet(playoff_appearances', t, 0) =
                        DictGet(playoff_appearances, t, 0)
                            + (IF t \in top_3 \cup eliminator THEN 1 ELSE 0)
    ELSE \A t \in Range(teams) :
             DictGet(playoff_appearances', t, 0) = DictGet(playoff_appearances, t, 0)

C14_AppearancesCountRuns == []C14_CountsBounded /\ [][C14_RunStep]_vars

\* a run of a five-team league has returned: every team has one appearance
C14_Witness ==
    /\ pc = "returned"
    /\ Len(teams) = 5
    /\ i = 1
    /\ \A t \in Range(teams) : DictGet(playoff_appearances, t, 0) = 1

\* C15: for num_simulations >= 1 the returned sample has one entry per fixture, in
\* schedule order, and no entry for the final; the first completed run stores its
\* group-stage match results as the sample and no other step changes the sample.
C15_SampleOnReturn ==
    (pc \in {"returned", "analyzed", "reported"} /\ num_simulations >= 1) =>
        /\ Len(all_match_results) = Len(schedule_df)
        /\ \A j \in 1..Len(all_match_results) :
               /\ all_match_results[j].match_id = schedule_df[j].Match_ID
               /\ all_match_results[j].team1 = schedule_df[j].Team1
               /\ all_match_results[j].team2 = schedule_df[j].Team2

C15_RunStep ==
    IF pc = "group" /\ pc' = "loop" /\ i = 0
    THEN all_match_results' = match_results
    ELSE all_match_results' = all_match_results

C15_SampleIsFirstRun == []C15_SampleOnReturn /\ [][C15_RunStep]_vars

\* two runs returned; London Spirit won both fixtures of the first run, which are
\* the sample, and lost both of the second
C15_Witness ==
    /\ pc = "returned"
    /\ num_simulations = 2
    /\ Len(all_match_results) = 2
    /\ all_match_results[1].winner = "London Spirit"
    /\ all_match_results[2].winner = "London Spirit"
    /\ "London Spirit" \in DOMAIN final_standings
    /\ final_standings["London Spirit"] = <<4, 0>>

\* C16: the analysis has exactly one row per rated team, and the row of a team
\* without a title and without a playoff appearance holds 0 in all four fields.
C16_OneRowPerTeam ==
    pc \in {"analyzed", "reported"} =>
        /\ Len(analysis) = Len(teams)
        /\ \A t \in Range(teams) :
               Cardinality({j \in 1..Len(analysis) : analysis[j].Team = t}) = 1
        /\ \A j \in 1..Len(analysis) :
               (/\ Count(winners, analysis[j].Team) = 0
                /\ DictGet(playoff_appearances, analysis[j].Team, 0) = 0) =>
                   /\ analysis[j].Win_Probability = 0
                   /\ analysis[j].Playoff_Probability = 0
                   /\ analysis[j].Titles_Won = 0
                   /\ analysis[j].Playoff_Appearances = 0

\* the analysis of a four-team league in which the team ranked fourth has a row of zeros
C16_Witness ==
    /\ pc = "analyzed"
    /\ Len(teams) = 4
    /\ Len(analysis) = 4
    /\ \E j \in 1..Len(analysis) :
        /\ Count(winners, analysis[j].Team) = 0
        /\ analysis[j].Playoff_Appearances = 0
        /\ analysis[j].Playoff_Probability = 0

TeamIndex(t) == CHOOSE j \in 1..Len(teams) : teams[j] = t

\* C17: the rows of the analysis are in descending order of Win_Probability and
\* rows of equal Win_Probability are in the order of the teams in the ratings input.
C17_SortedTiesInInputOrder ==
    pc \in {"analyzed", "reported"} =>
        \A j, l \in 1..Len(analysis) :
            j < l =>
                /\ analysis[j].Win_Probability >= analysis[l].Win_Probability
                /\ analysis[j].Win_Probability = analysis[l].Win_Probability =>
                       TeamIndex(analysis[j].Team) < TeamIndex(analysis[l].Team)

\* the sample entries find_crucial_matches may list: both teams have fewer than 4
\* teams rated strictly above them
HigherRated(t) ==
    {u \in Range(teams) : team_ratings[u].overall > team_ratings[t].overall}

EligibleSample ==
    {j \in 1..Len(all_match_results) :
        /\ Cardinality(HigherRated(all_match_results[j].team1)) < 4
        /\ Cardinality(HigherRated(all_match_results[j].team2)) < 4}

SampleScore(j) ==
    1000 - Abs(all_match_results[j].win_prob_team1 - all_match_results[j].win_prob_team2)

\* C18: find_crucial_matches returns at most 5 entries, each the entry of a
\* different sample match between two of the 4 highest rated teams, scored
\* 100 - |win_prob_team1 - win_prob_team2|, in descending order of score; no
\* eligible match left out scores strictly higher than a listed one; the list falls
\* short of 5 only when every eligible match is listed, and is empty without one.
C18_CrucialTopFive ==
    pc = "reported" =>
        LET listed == {crucial_matches[p].match_id : p \in 1..Len(crucial_matches)}
        IN  /\ Len(crucial_matches) = Min(5, Cardinality(EligibleSample))
            /\ Cardinality(listed) = Len(crucial_matches)
            /\ \A p \in 1..Len(crucial_matches) :
                   \E j \in EligibleSample :
                       /\ all_match_results[j].match_id = crucial_matches[p].match_id
                       /\ crucial_matches[p].teams =
                              <<all_match_results[j].team1, "vs", all_match_results[j].team2>>
                       /\ crucial_matches[p].winner = all_match_results[j].winner
                       /\ crucial_matches[p].importance_score = SampleScore(j)
            /\ \A p \in 1..(Len(crucial_matches) - 1) :
                   crucial_matches[p].importance_score
                       >= crucial_matches[p + 1].importance_score
            /\ \A j \in EligibleSample :
                   all_match_results[j].match_id \notin listed =>
                       \A p \in 1..Len(crucial_matches) :
                           SampleScore(j) <= crucial_matches[p].importance_score

\* five entries of different scores were taken from a sample with more than five
\* eligible matches and a match that is not eligible
C18_Witness ==
    /\ pc = "reported"
    /\ Len(crucial_matches) = 5
    /\ Cardinality(EligibleSample) > 5
    /\ Cardinality(EligibleSample) < Len(all_match_results)
    /\ crucial_matches[1].importance_score > crucial_matches[5].importance_score

\* C19: for num_simulations >= 1 the Win_Probability values of the analysis rows
\* sum to 100 (1000 tenths).
C19_WinProbabilitiesSumTo100 ==
    (pc \in {"analyzed", "reported"} /\ num_simulations >= 1) =>
        SumSeq(WinProbabilityOf(analysis)) = 1000

\* C20: an error raised inside a run ends run_multiple_simulations: the step that
\* raises it leaves the run counter and the aggregates (winners, appearance
\* counts, points lists, sample) as they were, and no step is ever taken after it,
\* so the run is not skipped or retried, no run follows and nothing is returned.
C20_ErrorEndsCall ==
    error # "none" => pc = "error"

C20_ErrorStep ==
    /\ pc # "error"
    /\ pc' = "error" =>
           /\ i' = i
           /\ winners' = winners
           /\ playoff_appearances' = playoff_appearances
           /\ final_standings' = final_standings
           /\ all_match_results' = all_match_results
           /\ analysis' = analysis

C20_FailedRunAbortsBatch == []C20_ErrorEndsCall /\ [][C20_ErrorStep]_vars

\* the final of the first of two or more runs raised after a complete group stage
C20_Witness ==
    /\ pc = "error"
    /\ error = "ValueError"
    /\ num_simulations >= 2
    /\ i = 0
    /\ Len(match_results) = 2
    /\ \E t \in DOMAIN team_stats : team_stats[t].points > 0
    /\ winners = <<>>
    /\ final_standings = <<>>

\* the data of the answered query: the fixture's two rating rows and venue profile
QueryFixture == schedule_df[MatchRow(query.match_id)]
QueryRatings1 == get_team_rating(QueryFixture.Team1)
QueryRatings2 == get_team_rating(QueryFixture.Team2)
QueryVenue == get_venue_impact(QueryFixture.Venue)

\* the head-to-head record of two overall ratings for a draw of total_matches
H2HRecord(team1_rating, team2_rating, total_matches) ==
    LET team1_wins == H2HWins(team1_rating, team2_rating, total_matches)
    IN  [total_matches |-> total_matches,
         team1_wins |-> team1_wins,
         team2_wins |-> total_matches - team1_wins,
         team1_win_pct |-> <<team1_wins * 100, total_matches>>,
         team2_win_pct |-> <<(total_matches - team1_wins) * 100, total_matches>>]

\* base_prob_team1 of a query after normalisation, before the clamp
Normalized(r1, r2, v, toss_winner, toss_decision, total_matches) ==
    LET h2h == H2HRecord(r1.overall, r2.overall, total_matches)
    IN  Normalize(PreNormal(r1, r2, v, h2h, toss_winner, toss_decision), BaseDen(h2h))

\* the probability pair calculate_win_probability reports for two rating rows, a
\* venue profile, a toss input and a head-to-head draw
PredictedPair(r1, r2, v, toss_winner, toss_decision, total_matches) ==
    LET h2h == H2HRecord(r1.overall, r2.overall, total_matches)
    IN  WinProb(PreNormal(r1, r2, v, h2h, toss_winner, toss_decision), BaseDen(h2h))

\* C21: the clamp step applied to the pair it produced returns the same pair: for
\* the normalised value p of an answered query, Clamp(Clamp(p)) = Clamp(p) with the
\* same complement, and clamping the reported probability leaves it as it is.
C21_ClampIdempotent ==
    prediction.status = "ok" =>
        LET p == Normalized(QueryRatings1, QueryRatings2, QueryVenue, query.toss_winner,
                            query.toss_decision, query.total_matches)
            once == Clamp(p)
            twice == Clamp(once)
            win_prob == prediction.result[1].win_prob
        IN  /\ twice = once
            /\ 100 * twice[2] - twice[1] = 100 * once[2] - once[1]
            /\ win_prob = <<Round1(once), Round1(<<100 * once[2] - once[1], once[2]>>)>>
            /\ Clamp(<<win_prob[1], 10>>) = <<win_prob[1], 10>>

\* a query whose normalised value is below 15 and was clamped up to it
C21_Witness ==
    /\ prediction.status = "ok"
    /\ prediction.result[1].win_prob = <<150, 850>>
    /\ LET p == Normalized(QueryRatings1, QueryRatings2, QueryVenue, query.toss_winner,
                           query.toss_decision, query.total_matches)
       IN  p[1] < ClampLow * p[2]

\* the points of the run that has just completed, in the order of the ratings input
LastRunPoints == [j \in 1..Len(teams) |-> final_standings[teams[j]][i]]

\* the teams in the stable descending order of those points
StableRanking ==
    LET order == SortOrderDesc(LastRunPoints)
    IN  [p \in 1..Len(teams) |-> teams[order[p]]]

\* C22: the playoff places of a completed run are those of the stable descending
\* sort of the standings by points: top_3 is its first three teams, the eliminator
\* candidates are its ranks 4 and 5, the two are disjoint, no team outside the top
\* 3 has more points than a top-3 team, and teams level on points are ranked in
\* the order of the ratings input.
C22_PlayoffsByStableRanking ==
    (pc = "loop" /\ i >= 1 /\ sim_result # <<>>) =>
        LET playoff_teams == sim_result[1].playoff_teams
            points(t) == final_standings[t][i]
        IN  /\ playoff_teams.top_3 = SubSeq(StableRanking, 1, Min(3, Len(teams)))
            /\ playoff_teams.eliminator =
                   IF Len(teams) >= 5 THEN SubSeq(StableRanking, 4, 5) ELSE <<>>
            /\ Range(playoff_teams.top_3) \cap Range(playoff_teams.eliminator) = {}
            /\ \A t \in Range(playoff_teams.top_3) :
                   \A u \in Range(teams) \ Range(playoff_teams.top_3) :
                       points(t) >= points(u)

\* C23: when the two teams of the fixture have exactly equal overall ratings, at
\* every venue profile, the answer carries no rating-based key factor and its key
\* factor text is "Evenly matched teams".
C23_EqualRatingsEvenlyMatched ==
    (prediction.status = "ok" /\ QueryRatings1.overall = QueryRatings2.overall) =>
        prediction.result[1].key_factor = << <<"Evenly matched teams">> >>

\* C24: the reported probabilities depend on the rating rows only through the two
\* overall ratings and on the venue profile only through its two win percentages:
\* replacing the batting and bowling sub-scores of either team, or the venue's
\* average score and run rate, by any other values gives the same pair.
C24_SubScoresDoNotMatter ==
    prediction.status = "ok" =>
        \A a1 \in {a \in RatingRows : a.overall = QueryRatings1.overall},
           a2 \in {a \in RatingRows : a.overall = QueryRatings2.overall},
           w \in {u \in VenueRows :
                     /\ u.bat_first_win_pct = QueryVenue.bat_first_win_pct
                     /\ u.bowl_first_win_pct = QueryVenue.bowl_first_win_pct} :
            PredictedPair(a1, a2, w, query.toss_winner, query.toss_decision,
                          query.total_matches)
                = prediction.result[1].win_prob

\* a fixture whose teams have the same overall rating with different sub-scores,
\* at a venue that has a namesake profile with another average score and run rate
C24_Witness ==
    /\ prediction.status = "ok"
    /\ QueryRatings1 = [batting |-> 700, bowling |-> 255, overall |-> 500]
    /\ QueryRatings2 = [batting |-> 500, bowling |-> 500, overall |-> 500]
    /\ QueryVenue = [bat_first_win_pct |-> 50, bowl_first_win_pct |-> 50,
                     avg_score |-> 171, run_rate |-> 97]

\* the number of matches of a result list that team t won, and that it lost
WonIn(results, t) == Cardinality({j \in 1..Len(results) : results[j].winner = t})
LostIn(results, t) == Cardinality({j \in 1..Len(results) : results[j].loser = t})

\* C25: no step modifies the team ratings, the venue profiles or the schedule; every
\* run starts with zero wins, losses and points for every team, so during a run each
\* team's standings count the matches of that run only, and the points a run
\* records are those of its own matches whatever the earlier runs were.
C25_StandingsOfThisRun ==
    pc = "group" =>
        \A t \in Range(teams) :
            /\ team_stats[t].wins = WonIn(match_results, t)
            /\ team_stats[t].losses = LostIn(match_results, t)
            /\ team_stats[t].points = PointsPerWin * WonIn(match_results, t)

C25_Step ==
    /\ refdata' = refdata
    /\ (pc = "loop" /\ pc' = "group") =>
           /\ match_results' = <<>>
           /\ DOMAIN team_stats' = Range(teams)
           /\ \A t \in Range(teams) :
                  team_stats'[t] = [wins |-> 0, losses |-> 0, points |-> 0]
    /\ (pc = "group" /\ pc' = "loop") =>
           \A t \in Range(teams) :
               final_standings'[t][i'] = PointsPerWin * WonIn(match_results, t)

C25_RunsIndependent == []C25_StandingsOfThisRun /\ [][C25_Step]_vars

\* the second run starts from zero for a team that scored points in the first
C25_Witness ==
    /\ pc = "group"
    /\ i = 1
    /\ match_results = <<>>
    /\ \E t \in Range(teams) :
           /\ final_standings[t][1] > 0
           /\ team_stats[t] = [wins |-> 0, losses |-> 0, points |-> 0]

\* the probability pair of the model for the teams and venue of a simulated match
\* record, with the toss the record carries
OwnPairs(played) ==
    {PredictedPair(get_team_rating(played.team1), get_team_rating(played.team2),
                   get_venue_impact(played.venue), played.toss_winner,
                   played.toss_decision, total_matches) :
        total_matches \in SimTotalMatches}

\* C26: every simulated match, a scheduled fixture or the synthetic final, is sampled
\* with the model's probability for that record's own team1, team2 and venue, never
\* with the probability of another pairing found in the schedule under its match id.
C26_SampledWithOwnProbability ==
    /\ \A j \in 1..Len(match_results) :
           <<match_results[j].win_prob_team1, match_results[j].win_prob_team2>>
               \in OwnPairs(match_results[j])
    /\ \A j \in 1..Len(final_results) :
           <<final_results[j].win_prob_team1, final_results[j].win_prob_team2>>
               \in OwnPairs(final_results[j])

\* C27: for overall ratings in [0, 100] and every draw of total_matches in 8..15,
\* the head-to-head record has team1_wins + team2_wins = total_matches, both win
\* counts in 0..total_matches, and both win percentages in [0, 100] summing to 100.
C27_HeadToHeadWellFormed ==
    (/\ prediction.status = "ok"
     /\ QueryRatings1.overall \in 0..1000
     /\ QueryRatings2.overall \in 0..1000
     /\ query.total_matches \in H2HMinMatches..H2HMaxMatches) =>
        LET h2h == get_head_to_head_record(QueryFixture.Team1, QueryFixture.Team2,
                                           query.total_matches)
        IN  /\ prediction.result[1].head_to_head = <<h2h.team1_wins, h2h.team2_wins>>
            /\ h2h.team1_wins + h2h.team2_wins = h2h.total_matches
            /\ h2h.team1_wins \in 0..h2h.total_matches
            /\ h2h.team2_wins \in 0..h2h.total_matches
            /\ h2h.team1_win_pct[1] >= 0
            /\ h2h.team1_win_pct[1] <= 100 * h2h.team1_win_pct[2]
            /\ h2h.team2_win_pct[1] >= 0
            /\ h2h.team2_win_pct[1] <= 100 * h2h.team2_win_pct[2]
            /\ h2h.team1_win_pct[1] + h2h.team2_win_pct[1] = 100 * h2h.total_matches

\* C28: at every venue profile, when the toss decision is the one the simulator
\* treats as favourable (Bat with win_percent_bat_first > 52, Bowl with
\* win_percent_bat_first < 48), the model gives the toss winner the full bonus of
\* 15 points: the two slots sum to 115 before normalisation.
C28_FavouredDecisionFullBonus ==
    (/\ prediction.status = "ok"
     /\ simulate_optimal_toss_decision(QueryFixture.Venue).favoured # "none"
     /\ query.toss_decision = simulate_optimal_toss_decision(QueryFixture.Venue).favoured) =>
        LET h2h == H2HRecord(QueryRatings1.overall, QueryRatings2.overall,
                             query.total_matches)
            pre == PreNormal(QueryRatings1, QueryRatings2, QueryVenue, h2h,
                             query.toss_winner, query.toss_decision)
        IN  /\ TossBonus(QueryVenue, query.toss_decision) = TossAdvantage
            /\ 10 * (pre[1] + pre[2]) = (1000 + TossAdvantage) * BaseDen(h2h)

\* overall ratings team1 could have instead: those of the rating rows, and the
\* ratings 0.1, 0.7 and 4.0 above its own
OtherOveralls ==
    {a.overall : a \in RatingRows} \cup {QueryRatings1.overall + d : d \in {1, 7, 40}}

\* the pair reported when team1's overall rating is o and all else is as queried
PairWithOverall(o) ==
    PredictedPair([QueryRatings1 EXCEPT !.overall = o], QueryRatings2, QueryVenue,
                  query.toss_winner, query.toss_decision, query.total_matches)

\* C29: with the opponent's rating, the venue, the toss input and the head-to-head
\* draw fixed, a higher overall rating of team1 never gives team1 a lower reported
\* win probability and never gives team2 a higher one.
C29_MonotoneInRatingGap ==
    prediction.status = "ok" =>
        \A o \in OtherOveralls :
            LET win_prob == prediction.result[1].win_prob
                other == PairWithOverall(o)
            IN  /\ o >= QueryRatings1.overall =>
                       other[1] >= win_prob[1] /\ other[2] <= win_prob[2]
                /\ o <= QueryRatings1.overall =>
                       other[1] <= win_prob[1] /\ other[2] >= win_prob[2]

\* a query answered inside the clamp range for which a higher rating of team1
\* gives a strictly higher probability
C29_Witness ==
    /\ prediction.status = "ok"
    /\ prediction.result[1].win_prob[1] > 10 * ClampLow
    /\ prediction.result[1].win_prob[1] < 10 * ClampHigh
    /\ \E o \in OtherOveralls :
           /\ o > QueryRatings1.overall
           /\ PairWithOverall(o)[1] > prediction.result[1].win_prob[1]

\* the toss-winner slot seen from the other team
OtherSlot(toss_winner) == IF toss_winner = "Team A" THEN "Team B" ELSE "Team A"

\* C30: answering the fixture with team1 and team2 exchanged and the toss winner's
\* slot exchanged with them, at the same venue, toss decision and head-to-head
\* draw, gives the same two probabilities exchanged.
C30_SymmetricInSlots ==
    prediction.status = "ok" =>
        LET swapped == PredictedPair(QueryRatings2, QueryRatings1, QueryVenue,
                                     OtherSlot(query.toss_winner), query.toss_decision,
                                     query.total_matches)
        IN  swapped = <<prediction.result[1].win_prob[2], prediction.result[1].win_prob[1]>>

====
